---------------------------- MODULE Spec2Model ----------------------------
(***************************************************************************)
(* A model of the CSV streaming pipeline of src/src/utils/csvParser.js.    *)
(*                                                                         *)
(* A JavaScript string is a sequence of one-character strings, so that     *)
(* parseLine, trim and split are computed character by character.          *)
(* A JavaScript value is a tagged record [t, v]:                           *)
(*   t = "str"  v = the characters                                         *)
(*   t = "num"  v = <<n, d>>, the value n/d in lowest terms (d = 0 for     *)
(*              +/-Infinity)                                               *)
(*   t = "obj"  v = a function from keys (strings) to values               *)
(*   t = "throw" the evaluation threw (a TypeError propagating upwards)    *)
(***************************************************************************)
EXTENDS Integers, Sequences, FiniteSets, TLC

VARIABLES
  file,          \* the lines of the source file, in file order
  finalNewline,  \* whether the last line of the file ends with a newline
  batchSize,     \* parseStream's batchSize argument
  pos,           \* how many lines of file readline has emitted as 'line' events
  headers,       \* let headers = null
  arrays,        \* the arrays `batch` has been bound to, by allocation order
  batch,         \* let batch = [] : index in arrays of the current array
  lineNumber,    \* let lineNumber = 0
  totalRecords,  \* let totalRecords = 0
  paused,        \* rl.paused, i.e. the input stream is not flowing
  closed,        \* rl.closed
  fileStream,    \* "open" while the read stream holds its descriptor, else "closed"
  calls,         \* the onBatch calls started so far, in start order
  promise,       \* the promise parseStream returns
  probe,         \* a call of parse() or of one of the pure methods: its
                 \* argument and, once it has run, its result
  svc,           \* a call of UserService.insertUserBatch and the users table
  app            \* the application: whether it listens, and its
                 \* processCsvFile runs in the order they were started

vars == <<file, finalNewline, batchSize, pos, headers, arrays, batch,
          lineNumber, totalRecords, paused, closed, fileStream, calls, promise,
          probe, svc, app>>

----------------------------------------------------------------------------
(* Bounds of the model.                                                    *)

MaxLines == 4
MaxBatchSize == 2
MaxRecords == 2
MaxLineLen == 5
MaxCols == 3
MaxFieldLen == 4

----------------------------------------------------------------------------
(* Strings.                                                                *)

WhiteSpace == {" ", "\t", "\r"}

RECURSIVE TrimStart(_)
TrimStart(s) ==
  IF s # <<>> /\ Head(s) \in WhiteSpace THEN TrimStart(Tail(s)) ELSE s

RECURSIVE TrimEnd(_)
TrimEnd(s) ==
  IF s # <<>> /\ s[Len(s)] \in WhiteSpace
    THEN TrimEnd(SubSeq(s, 1, Len(s) - 1)) ELSE s

\* String.prototype.trim
Trim(s) == TrimEnd(TrimStart(s))

\* String.prototype.split(sep) for a one-character separator
RECURSIVE SplitFrom(_, _, _, _)
SplitFrom(s, sep, i, cur) ==
  IF i > Len(s) THEN <<cur>>
  ELSE IF s[i] = sep THEN <<cur>> \o SplitFrom(s, sep, i + 1, <<>>)
  ELSE SplitFrom(s, sep, i + 1, Append(cur, s[i]))

Split(s, sep) == SplitFrom(s, sep, 1, <<>>)

----------------------------------------------------------------------------
(* parseLine: the character scan with the insideQuotes flag.               *)

\* the scan without the quote flag: every comma ends a field
RECURSIVE ParseLineNoFlag(_, _, _, _, _)
ParseLineNoFlag(line, i, values, current, insideQuotes) ==
  IF i > Len(line) THEN Append(values, Trim(current))
  ELSE LET char == line[i] IN
    IF char = "\""
      THEN ParseLineNoFlag(line, i + 1, values, current, insideQuotes)
    ELSE IF char = ","
      THEN ParseLineNoFlag(line, i + 1, Append(values, Trim(current)), <<>>,
                           insideQuotes)
    ELSE ParseLineNoFlag(line, i + 1, values, Append(current, char),
                         insideQuotes)

RECURSIVE ParseLineFrom(_, _, _, _, _)
ParseLineFrom(line, i, values, current, insideQuotes) ==
  IF i > Len(line) THEN Append(values, Trim(current))
  ELSE LET char == line[i] IN
    IF char = "\""
      THEN ParseLineFrom(line, i + 1, values, current, ~insideQuotes)
    ELSE IF char = "," /\ ~insideQuotes
      THEN ParseLineFrom(line, i + 1, Append(values, Trim(current)), <<>>,
                         insideQuotes)
    ELSE ParseLineFrom(line, i + 1, values, Append(current, char), insideQuotes)

parseLine(line) == ParseLineFrom(line, 1, <<>>, <<>>, FALSE)

----------------------------------------------------------------------------
(* JavaScript values.                                                      *)

Str(s) == [t |-> "str", v |-> s]
Num(n, d) == [t |-> "num", v |-> <<n, d>>]
Obj(f) == [t |-> "obj", v |-> f]
Thrown == [t |-> "throw", v |-> <<>>]

\* ToBoolean: '' and 0 are falsy, every object is truthy
Truthy(x) ==
  CASE x.t = "str" -> x.v # <<>>
    [] x.t = "num" -> x.v[1] # 0
    [] OTHER -> TRUE

----------------------------------------------------------------------------
(* Number(value) and isNaN(value) on a string: the StringNumericLiteral    *)
(* grammar of the language.  Values are exact rationals; binary rounding   *)
(* of the double is not modelled.                                          *)

DecDigits == <<"0", "1", "2", "3", "4", "5", "6", "7", "8", "9">>
HexDigits == DecDigits \o <<"a", "b", "c", "d", "e", "f">>
UpperHex == [c \in {"A", "B", "C", "D", "E", "F"} |->
               CASE c = "A" -> "a" [] c = "B" -> "b" [] c = "C" -> "c"
                 [] c = "D" -> "d" [] c = "E" -> "e" [] OTHER -> "f"]

Range(seq) == {seq[i] : i \in DOMAIN seq}

LowerHex(c) == IF c \in DOMAIN UpperHex THEN UpperHex[c] ELSE c

IsDigitOf(c, base) == LowerHex(c) \in Range(SubSeq(HexDigits, 1, base))

DigitVal(c) == (CHOOSE i \in DOMAIN HexDigits : HexDigits[i] = LowerHex(c)) - 1

AllDigits(s, base) == \A i \in DOMAIN s : IsDigitOf(s[i], base)

RECURSIVE NatOf(_, _)
NatOf(s, base) ==
  IF s = <<>> THEN 0
  ELSE NatOf(SubSeq(s, 1, Len(s) - 1), base) * base + DigitVal(s[Len(s)])

RECURSIVE Pow(_, _)
Pow(b, k) == IF k <= 0 THEN 1 ELSE b * Pow(b, k - 1)

RECURSIVE Gcd(_, _)
Gcd(a, b) == IF b = 0 THEN a ELSE Gcd(b, a % b)

Abs(n) == IF n < 0 THEN -n ELSE n

Ratio(n, d) == LET g == Gcd(Abs(n), d) IN Num(n \div g, d \div g)

NaN == [t |-> "num", v |-> <<0, 0>>]

\* a non-zero number m * 10^e too large or too small to be written out as a
\* fraction of machine integers
Scientific(m, e) == [t |-> "num", v |-> <<m, 10, e>>]

IsSign(c) == c \in {"+", "-"}

\* ExponentPart after the e/E: an optional sign and at least one digit
ExpOk(s) ==
  LET body == IF s # <<>> /\ IsSign(s[1]) THEN Tail(s) ELSE s
  IN body # <<>> /\ AllDigits(body, 10)

ExpVal(s) ==
  IF s[1] = "-" THEN -NatOf(Tail(s), 10)
  ELSE IF s[1] = "+" THEN NatOf(Tail(s), 10)
  ELSE NatOf(s, 10)

\* StrUnsignedDecimalLiteral, times sign
UnsignedDecimal(s, sign) ==
  IF s = <<"I", "n", "f", "i", "n", "i", "t", "y">> THEN Num(sign, 0)
  ELSE
    LET es == {i \in DOMAIN s : s[i] \in {"e", "E"}}
        ePos == IF es = {} THEN Len(s) + 1
                ELSE CHOOSE i \in es : \A j \in es : i <= j
        mant == SubSeq(s, 1, ePos - 1)
        expo == SubSeq(s, ePos + 1, Len(s))
        parts == Split(mant, ".")
        int == parts[1]
        frac == IF Len(parts) = 2 THEN parts[2] ELSE <<>>
        ok == /\ Len(parts) <= 2
              /\ AllDigits(int, 10) /\ AllDigits(frac, 10)
              /\ int \o frac # <<>>
              /\ es = {} \/ ExpOk(expo)
        e == (IF es = {} THEN 0 ELSE ExpVal(expo)) - Len(frac)
        m == sign * NatOf(int \o frac, 10)
    IN IF ~ok THEN NaN
       ELSE IF m = 0 THEN Num(0, 1)
       ELSE IF Abs(e) > 4 THEN Scientific(m, e)
       ELSE IF e >= 0 THEN Ratio(m * Pow(10, e), 1)
       ELSE Ratio(m, Pow(10, -e))

\* 0x.., 0o.., 0b.. : no sign allowed
NonDecimalBase(s) ==
  IF Len(s) >= 3 /\ s[1] = "0"
    THEN CASE s[2] \in {"x", "X"} -> 16
           [] s[2] \in {"o", "O"} -> 8
           [] s[2] \in {"b", "B"} -> 2
           [] OTHER -> 0
    ELSE 0

\* Number(s), for a string s
ToNumber(s) ==
  LET str == Trim(s) IN
  IF str = <<>> THEN Num(0, 1)
  ELSE IF NonDecimalBase(str) # 0
    THEN IF AllDigits(SubSeq(str, 3, Len(str)), NonDecimalBase(str))
           THEN Num(NatOf(SubSeq(str, 3, Len(str)), NonDecimalBase(str)), 1)
           ELSE NaN
  ELSE IF IsSign(str[1])
    THEN UnsignedDecimal(Tail(str), IF str[1] = "-" THEN -1 ELSE 1)
  ELSE UnsignedDecimal(str, 1)

isNaN(s) == ToNumber(s) = NaN

\* the conversion without the test value !== ''
CoerceEmptyToo(value) ==
  IF ~isNaN(value) THEN ToNumber(value) ELSE Str(value)

\* if (!isNaN(value) && value !== '') value = Number(value)
Coerce(value) ==
  IF ~isNaN(value) /\ value # <<>> THEN ToNumber(value) ELSE Str(value)

----------------------------------------------------------------------------
(* createNestedObject and mergeDeep.                                       *)

\* the loop over keys[0..length-2] and the assignment of the last key
RECURSIVE NestKeys(_, _)
NestKeys(keys, value) ==
  IF Len(keys) = 1 THEN Obj(Trim(keys[1]) :> value)
  ELSE Obj(Trim(keys[1]) :> NestKeys(Tail(keys), value))

\* the header taken as one key, with no split at the dots
createFlatObject(key, value) == Obj(Trim(key) :> value)

createNestedObject(key, value) == NestKeys(Split(key, "."), value)

\* mergeDeep(target, source).  The method is class code, hence strict: a
\* property assignment on a primitive target throws a TypeError.
\* Object.assign(target, source): the keys of the source replace those of
\* the target, with no recursion
mergeShallow(target, source) ==
  Obj([key \in (DOMAIN target.v) \cup (DOMAIN source.v) |->
         IF key \in DOMAIN source.v THEN source.v[key] ELSE target.v[key]])

RECURSIVE mergeDeep(_, _)
mergeDeep(target, source) ==
  IF target.t # "obj"
    THEN IF DOMAIN source.v = {} THEN target ELSE Thrown
  ELSE
    LET merged == [key \in (DOMAIN target.v) \cup (DOMAIN source.v) |->
          IF key \notin DOMAIN source.v THEN target.v[key]
          ELSE IF source.v[key].t = "obj"
            THEN mergeDeep(IF key \in DOMAIN target.v /\ Truthy(target.v[key])
                             THEN target.v[key] ELSE Obj(<<>>),
                           source.v[key])
          ELSE source.v[key]]
    IN IF \E key \in DOMAIN merged : merged[key] = Thrown
         THEN Thrown ELSE Obj(merged)

\* the for (j ...) loop building one record from the headers and the values
RECURSIVE MapColumns(_, _, _, _)
MapColumns(hdrs, values, j, record) ==
  IF j > Len(hdrs) \/ record = Thrown THEN record
  ELSE LET header == Trim(hdrs[j])
           value == Coerce(Trim(values[j]))
           nestedObj == createNestedObject(header, value)
       IN MapColumns(hdrs, values, j + 1, mergeDeep(record, nestedObj))

----------------------------------------------------------------------------
(* parseStream: the state of one run.                                      *)
(*                                                                         *)
(* The handlers of rl are called by readline; what they do up to their     *)
(* first await is one synchronous step.  St is the part of the state such  *)
(* a step reads and writes.                                                *)

NoHeaders == [isNull |-> TRUE, v |-> <<>>]
Headers(h) == [isNull |-> FALSE, v |-> h]

Pending == [state |-> "pending", value |-> 0]

\* no call of parse() or of a pure method has been made
NoProbe == [op |-> "none", arg |-> <<>>, out |-> <<>>]

\* no call of insertUserBatch has been made; the users table is empty
NoSvc == [pc |-> "idle", records |-> <<>>, i |-> 0, tx |-> <<>>,
          table |-> <<>>, before |-> <<>>, error |-> "", released |-> FALSE,
          result |-> [kind |-> "none", value |-> 0, error |-> ""]]

\* the application has not started
NoApp == [phase |-> "starting", runs |-> <<>>]

St == [headers |-> headers, arrays |-> arrays, batch |-> batch,
       lineNumber |-> lineNumber, totalRecords |-> totalRecords,
       paused |-> paused, closed |-> closed, calls |-> calls,
       promise |-> promise]

\* resolve(v) and reject(e): only the first settles the promise
Resolve(p, v) == IF p.state = "pending" THEN [state |-> "fulfilled", value |-> v] ELSE p
Reject(p, e) == IF p.state = "pending" THEN [state |-> "rejected", value |-> e] ELSE p

\* onBatch(batch) is called: the consumer receives the array itself.
\* atStart records what the array held when the call started, line the
\* number of lines processed by then, afterFailure whether an earlier
\* onBatch call had already failed.
StartCall(st, from) ==
  [st EXCEPT !.calls = Append(@, [arr |-> st.batch,
                                   atStart |-> st.arrays[st.batch],
                                   from |-> from,
                                   line |-> st.lineNumber,
                                   afterFailure |->
                                     \E d \in DOMAIN st.calls :
                                        st.calls[d].status = "rejected",
                                   status |-> "pending"])]

\* batch.push(record); totalRecords++; and the hand-off of a full batch,
\* up to the await.  A record carries the number of the line it came from.
PushRecord(st, record, size) ==
  LET pushed == [st EXCEPT
                   !.arrays[st.batch] = Append(@, [line |-> st.lineNumber,
                                                   value |-> record]),
                   !.totalRecords = @ + 1]
  IN IF Len(pushed.arrays[pushed.batch]) >= size
       THEN StartCall([pushed EXCEPT !.paused = TRUE], "line")
       ELSE pushed

\* the line handler with the column check weakened to values.length <
\* headers.length: rows with too many fields pass
LineHandlerLooseCheck(st0, line, size) ==
  LET st == [st0 EXCEPT !.lineNumber = @ + 1] IN
  IF Trim(line) = <<>> THEN st
  ELSE IF st.lineNumber = 1 THEN [st EXCEPT !.headers = Headers(parseLine(line))]
  ELSE IF st.headers.isNull THEN st
  ELSE LET values == parseLine(line) IN
    IF Len(values) < Len(st.headers.v) THEN st
    ELSE LET record == MapColumns(st.headers.v, values, 1, Obj(<<>>)) IN
      IF record = Thrown THEN st
      ELSE PushRecord(st, record, size)

\* rl.on('line', ...) up to its first await
LineHandler(st0, line, size) ==
  LET st == [st0 EXCEPT !.lineNumber = @ + 1] IN
  IF Trim(line) = <<>> THEN st
  ELSE IF st.lineNumber = 1 THEN [st EXCEPT !.headers = Headers(parseLine(line))]
  ELSE IF st.headers.isNull THEN st      \* headers.length throws, caught at 153
  ELSE LET values == parseLine(line) IN
    IF Len(values) # Len(st.headers.v) THEN st
    ELSE LET record == MapColumns(st.headers.v, values, 1, Obj(<<>>)) IN
      IF record = Thrown THEN st         \* caught at 153
      ELSE PushRecord(st, record, size)

\* readline emits every line of a chunk in one synchronous loop
RECURSIVE EmitLines(_, _, _)
EmitLines(st, lines, size) ==
  IF lines = <<>> THEN st
  ELSE EmitLines(LineHandler(st, Head(lines), size), Tail(lines), size)

\* a close handler that flushes the last batch but never calls resolve
CloseHandlerNoResolve(st) ==
  IF Len(st.arrays[st.batch]) > 0 THEN StartCall(st, "close") ELSE st

\* rl.on('close', ...) up to its first await
CloseHandler(st) ==
  IF Len(st.arrays[st.batch]) > 0 THEN StartCall(st, "close")
  ELSE [st EXCEPT !.promise = Resolve(@, st.totalRecords)]

\* rl.close(): nothing if already closed, else pause, mark closed, emit 'close'
RlClose(st) ==
  IF st.closed THEN st
  ELSE CloseHandler([st EXCEPT !.paused = TRUE, !.closed = TRUE])

Store(st) ==
  /\ headers' = st.headers
  /\ arrays' = st.arrays
  /\ batch' = st.batch
  /\ lineNumber' = st.lineNumber
  /\ totalRecords' = st.totalRecords
  /\ paused' = st.paused
  /\ closed' = st.closed
  /\ calls' = st.calls
  /\ promise' = st.promise

----------------------------------------------------------------------------
(* The input files of the model.                                           *)

Blank == <<>>
HeaderLine == <<"n", ".", "f", ",", "a">>
RowLine == <<"A", ",", "1">>
ShortLine == <<"C">>

LineSet == {Blank, HeaderLine, RowLine, ShortLine}

Files == UNION {[1..n -> LineSet] : n \in 0..MaxLines}

\* the lines readline emits from 'data' chunks; an unterminated last line
\* stays in its buffer until the stream ends
Deliverable == IF finalNewline THEN Len(file) ELSE Len(file) - 1

Init ==
  /\ file \in Files
  /\ finalNewline \in BOOLEAN
  /\ finalNewline = FALSE => file # <<>> /\ file[Len(file)] # <<>>
  /\ batchSize \in 1..MaxBatchSize
  /\ pos = 0
  /\ headers = NoHeaders
  /\ arrays = << <<>> >>
  /\ batch = 1
  /\ lineNumber = 0
  /\ totalRecords = 0
  /\ paused = FALSE
  /\ closed = FALSE
  /\ fileStream = "open"
  /\ calls = <<>>
  /\ promise = Pending
  /\ probe = NoProbe
  /\ svc = NoSvc
  /\ app = NoApp

----------------------------------------------------------------------------
(* The steps of a run.                                                     *)

\* a 'data' chunk holding the next k complete lines reaches readline
Data(k) ==
  /\ ~paused /\ ~closed /\ fileStream = "open"
  /\ pos + k <= Deliverable
  /\ pos' = pos + k
  /\ Store(EmitLines(St, SubSeq(file, pos + 1, pos + k), batchSize))
  /\ UNCHANGED <<app, probe, svc, file, finalNewline, batchSize, fileStream>>

\* the stream ends: readline emits the unterminated last line, if any, and
\* closes itself; the read stream releases its descriptor
End ==
  /\ ~paused /\ ~closed /\ fileStream = "open"
  /\ pos = Deliverable
  /\ pos' = Len(file)
  /\ Store(RlClose(EmitLines(St, SubSeq(file, pos + 1, Len(file)), batchSize)))
  /\ fileStream' = "closed"
  /\ UNCHANGED <<app, probe, svc, file, finalNewline, batchSize>>

\* await onBatch(batch) of the line handler returns: batch = []; rl.resume()
BatchDone(c) ==
  /\ calls[c].status = "pending" /\ calls[c].from = "line"
  /\ Store([St EXCEPT !.calls[c].status = "fulfilled",
                      !.arrays = Append(@, <<>>),
                      !.batch = Len(arrays) + 1,
                      !.paused = FALSE])
  /\ UNCHANGED <<app, probe, svc, file, finalNewline, batchSize, pos, fileStream>>

\* await onBatch(batch) of the line handler throws: rl.close(); reject(error)
BatchFailed(c) ==
  /\ calls[c].status = "pending" /\ calls[c].from = "line"
  /\ LET st == RlClose([St EXCEPT !.calls[c].status = "rejected"])
     IN Store([st EXCEPT !.promise = Reject(@, c)])
  /\ UNCHANGED <<app, probe, svc, file, finalNewline, batchSize, pos, fileStream>>

\* await onBatch(batch) of the close handler returns: resolve(totalRecords)
FinalDone(c) ==
  /\ calls[c].status = "pending" /\ calls[c].from = "close"
  /\ Store([St EXCEPT !.calls[c].status = "fulfilled",
                      !.promise = Resolve(@, totalRecords)])
  /\ UNCHANGED <<app, probe, svc, file, finalNewline, batchSize, pos, fileStream>>

\* await onBatch(batch) of the close handler throws: reject(error)
FinalFailed(c) ==
  /\ calls[c].status = "pending" /\ calls[c].from = "close"
  /\ Store([St EXCEPT !.calls[c].status = "rejected",
                      !.promise = Reject(@, c)])
  /\ UNCHANGED <<app, probe, svc, file, finalNewline, batchSize, pos, fileStream>>

\* rl.resume() after rl.close(): the read stream flows again with no
\* listener left on it, runs to its end and releases its descriptor
Drain ==
  /\ closed /\ ~paused /\ fileStream = "open"
  /\ fileStream' = "closed"
  /\ UNCHANGED <<app, probe, svc, file, finalNewline, batchSize, pos, headers, arrays, batch,
                 lineNumber, totalRecords, paused, closed, calls, promise>>

Next ==
  \/ \E k \in 1..MaxLines : Data(k)
  \/ End
  \/ \E c \in DOMAIN calls : BatchDone(c)
  \/ \E c \in DOMAIN calls : BatchFailed(c)
  \/ \E c \in DOMAIN calls : FinalDone(c)
  \/ \E c \in DOMAIN calls : FinalFailed(c)
  \/ Drain

Spec == Init /\ [][Next]_vars

----------------------------------------------------------------------------
(* Properties of parseStream.                                              *)

InFlight == {c \in DOMAIN calls : calls[c].status = "pending"}

Settled == promise.state # "pending"

\* the line numbers of the records of a batch, in batch order
LinesOf(records) == [i \in DOMAIN records |-> records[i].line]

\* the line numbers of the records handed to onBatch, over the first n
\* calls in the order they were started
RECURSIVE Delivered(_)
Delivered(n) ==
  IF n = 0 THEN <<>> ELSE Delivered(n - 1) \o LinesOf(calls[n].atStart)

\* every record the run has materialized, by line number
Materialized == UNION {Range(LinesOf(arrays[a])) : a \in DOMAIN arrays}

\* C1: at most one onBatch call is in flight, and while a call is in flight
\* no further line is processed.
C1_OneBatchInFlight ==
  /\ Cardinality(InFlight) <= 1
  /\ \A c \in InFlight : lineNumber = calls[c].line

\* C2: every batch handed to onBatch holds between 1 and batchSize records,
\* when the call starts and while it is in flight, and only the last batch
\* of the run is smaller than batchSize.
C2_BatchWithinBatchSize ==
  \A c \in DOMAIN calls :
    /\ Len(calls[c].atStart) \in 1..batchSize
    /\ c \in InFlight => Len(arrays[calls[c].arr]) \in 1..batchSize
    /\ Len(calls[c].atStart) < batchSize =>
         c = Len(calls) /\ calls[c].from = "close"

\* C3: when the run has resolved and every onBatch call succeeded, each
\* materialized record was handed to onBatch exactly once, and the sizes of
\* the batches add up to the total the run returned.
C3_EachRecordDeliveredOnce ==
  (promise.state = "fulfilled"
     /\ \A c \in DOMAIN calls : calls[c].status = "fulfilled")
  => LET d == Delivered(Len(calls)) IN
       /\ \A l \in Materialized : Cardinality({i \in DOMAIN d : d[i] = l}) = 1
       /\ Len(d) = promise.value

\* C4: the batches, concatenated in the order their calls were started,
\* hold the records in the order of their lines in the file.
C4_LineOrderPreserved ==
  LET d == Delivered(Len(calls)) IN
  \A i, j \in DOMAIN d : i < j => d[i] <= d[j]

\* the first non-blank line of the file, 0 if there is none
FirstNonBlank ==
  LET nb == {i \in DOMAIN file : Trim(file[i]) # <<>>}
  IN IF nb = {} THEN 0 ELSE CHOOSE i \in nb : \A j \in nb : i <= j

\* C5: the first non-blank line is the header and never a record, and
\* every later non-blank line is a data row against that header, also when
\* blank lines precede the header.
C5_FirstNonBlankIsHeader ==
  LET h == FirstNonBlank IN
  (h # 0 /\ lineNumber >= h) =>
    /\ headers = Headers(parseLine(file[h]))
    /\ h \notin Materialized
    /\ \A i \in (h + 1)..lineNumber :
         (/\ Trim(file[i]) # <<>>
          /\ Len(parseLine(file[i])) = Len(parseLine(file[h]))
          /\ MapColumns(parseLine(file[h]), parseLine(file[i]), 1, Obj(<<>>))
               # Thrown)
         => i \in Materialized

\* C6: the run resolves only after every onBatch call has completed, with
\* at most one final call, whose batch was handed to no other call.
C6_FinalFlushThenDone ==
  promise.state = "fulfilled" =>
    /\ InFlight = {}
    /\ \A c, d \in DOMAIN calls :
         (calls[c].from = "close" /\ c # d) =>
           calls[d].from = "line" /\ calls[d].arr # calls[c].arr

\* C7: a run in which some onBatch call failed is rejected, never resolved
\* with a record count.
C7_FailurePropagates ==
  (\E c \in DOMAIN calls : calls[c].status = "rejected")
  => promise.state = "rejected"

\* C8: once an onBatch call has failed, no further onBatch call is started.
C8_NoCallAfterFailure ==
  \A c \in DOMAIN calls : ~calls[c].afterFailure

\* C9: when the run has ended, resolved or rejected, and no onBatch call is
\* left in flight, the file stream is closed.
C9_FileStreamReleased ==
  (Settled /\ InFlight = {}) => fileStream = "closed"

\* C10: a batch handed to onBatch is not changed while the call is in
\* flight.
C10_BatchUntouchedInFlight ==
  \A c \in InFlight : arrays[calls[c].arr] = calls[c].atStart

----------------------------------------------------------------------------
(* parse(): the whole-file loader.  It has no await: one call is one step. *)

\* the text of the file: its lines joined by "\n", the last one terminated
\* or not
RECURSIVE JoinLines(_, _)
JoinLines(lines, terminated) ==
  IF lines = <<>> THEN <<>>
  ELSE IF Len(lines) = 1
    THEN lines[1] \o (IF terminated THEN <<"\n">> ELSE <<>>)
  ELSE lines[1] \o <<"\n">> \o JoinLines(Tail(lines), terminated)

FileContent == JoinLines(file, finalNewline)

\* the for (i = 1 ...) loop of parse.  An exception of the row
\* materialization leaves the loop: there is no try inside it.  A record
\* carries the number of the line of the file it came from.
RECURSIVE ParseRows(_, _, _, _)
ParseRows(hdrs, lines, i, records) ==
  IF i > Len(lines) THEN [status |-> "ok", error |-> "", headers |-> hdrs,
                          records |-> records]
  ELSE LET values == parseLine(lines[i].text) IN
    IF Len(values) # Len(hdrs)
      THEN ParseRows(hdrs, lines, i + 1, records)
    ELSE LET record == MapColumns(hdrs, values, 1, Obj(<<>>)) IN
      IF record = Thrown
        THEN [status |-> "error", error |-> "TypeError", headers |-> hdrs,
              records |-> <<>>]
      ELSE ParseRows(hdrs, lines, i + 1,
                     Append(records, [line |-> lines[i].line,
                                      value |-> record]))

\* parse() without the filter on blank lines
parseUnfiltered(fileContent) ==
  LET split == Split(fileContent, "\n")
      lines == [i \in DOMAIN split |-> [line |-> i, text |-> split[i]]]
  IN IF Len(lines) = 0
       THEN [status |-> "error", error |-> "CSV file is empty",
             headers |-> <<>>, records |-> <<>>]
       ELSE ParseRows(parseLine(lines[1].text), lines, 2, <<>>)

\* parse(), on the text readFileSync returns
parse(fileContent) ==
  LET split == Split(fileContent, "\n")
      numbered == [i \in DOMAIN split |-> [line |-> i, text |-> split[i]]]
      lines == SelectSeq(numbered, LAMBDA l : Trim(l.text) # <<>>)
  IN IF Len(lines) = 0
       THEN [status |-> "error", error |-> "CSV file is empty",
             headers |-> <<>>, records |-> <<>>]
       ELSE ParseRows(parseLine(lines[1].text), lines, 2, <<>>)

\* a call of parse() on the file of the run
Parse ==
  /\ probe = NoProbe
  /\ probe' = [op |-> "parse", arg |-> FileContent, out |-> parse(FileContent)]
  /\ UNCHANGED <<app, svc, file, finalNewline, batchSize, pos, headers, arrays,
                 batch, lineNumber, totalRecords, paused, closed, fileStream,
                 calls, promise>>

\* the files on which parse() and parseStream are run side by side
ConflictLine == <<"a", ",", "a", ".", "b">>
EmptyFirstLine == <<",", "1">>
SpaceLine == <<" ">>

LoaderLineSet == {SpaceLine, ConflictLine, EmptyFirstLine, ShortLine}

LoaderFiles == UNION {[1..n -> LoaderLineSet] : n \in 0..MaxLines}

\* parse() takes no batch size; parseStream hands every record off at once
InitLoader ==
  /\ file \in LoaderFiles
  /\ finalNewline \in BOOLEAN
  /\ finalNewline = FALSE => file # <<>> /\ file[Len(file)] # <<>>
  /\ batchSize = 1
  /\ pos = 0
  /\ headers = NoHeaders
  /\ arrays = << <<>> >>
  /\ batch = 1
  /\ lineNumber = 0
  /\ totalRecords = 0
  /\ paused = FALSE
  /\ closed = FALSE
  /\ fileStream = "open"
  /\ calls = <<>>
  /\ promise = Pending
  /\ probe = NoProbe
  /\ svc = NoSvc
  /\ app = NoApp

\* parse() runs to its end before anything else happens, so the two runs
\* on one file are taken one after the other
NextLoader == Parse \/ (probe # NoProbe /\ Next)

SpecLoader == InitLoader /\ [][NextLoader]_vars

----------------------------------------------------------------------------
(* Properties of the row materializer, in parse() and in parseStream.      *)

\* the lines of the file from which parse() returned a record
ParsedLines == Range(LinesOf(probe.out.records))

ParseRan == probe.op = "parse"

\* line i of the file is not blank
NonBlank(i) == Trim(file[i]) # <<>>

\* line i splits into as many fields as line h
SameCount(i, h) == Len(parseLine(file[i])) = Len(parseLine(file[h]))

\* the materialization of line i against the header on line h
RowRecord(i, h) ==
  MapColumns(parseLine(file[h]), parseLine(file[i]), 1, Obj(<<>>))

\* line i is a valid data row for the header on line h
ValidRow(i, h) ==
  NonBlank(i) /\ SameCount(i, h) /\ RowRecord(i, h) # Thrown

\* C11: a data row whose field count differs from the header's is in no
\* batch and in no record list and is not counted, and the valid rows around
\* it are materialized: by parseStream when the header is on line 1, by
\* parse() when it returns a list.
C11_MismatchRowDropped ==
  LET h == FirstNonBlank
      hdrs == parseLine(file[h])
      rows == {i \in (h + 1)..Len(file) : NonBlank(i)}
      values == [i \in rows |-> parseLine(file[i])]
      mismatch == {i \in rows : Len(values[i]) # Len(hdrs)}
      valid == {i \in rows \ mismatch :
                  MapColumns(hdrs, values[i], 1, Obj(<<>>)) # Thrown}
      materialized == Materialized
      parsed == ParsedLines
  IN h # 0 =>
    /\ mismatch \cap materialized = {}
    /\ ParseRan => mismatch \cap parsed = {}
    /\ totalRecords = Cardinality(materialized)
    /\ h = 1 => (valid \cap 2..lineNumber) \subseteq materialized
    /\ (ParseRan /\ probe.out.status = "ok") =>
         /\ Len(probe.out.records) = Cardinality(parsed)
         /\ valid \subseteq parsed

\* a file with a valid row, a row of another field count and a valid row
\* has gone through parse() and through parseStream
C11_Witness ==
  /\ file = <<ConflictLine, EmptyFirstLine, ShortLine, EmptyFirstLine>>
  /\ ParseRan /\ ParsedLines = {2, 4}
  /\ lineNumber = 4 /\ Materialized = {2, 4} /\ totalRecords = 2

\* line i is a data row whose materialization against the header on line h
\* throws
FaultyRow(i, h) ==
  NonBlank(i) /\ SameCount(i, h) /\ RowRecord(i, h) = Thrown

\* C12: a row whose materialization throws is dropped and nothing else: in
\* parseStream the other valid rows are still materialized, and parse()
\* still returns the records of the other valid rows.
C12_RowFaultRecoverable ==
  LET h == FirstNonBlank IN
  h # 0 =>
    /\ \A i \in (h + 1)..Len(file) : FaultyRow(i, h) => i \notin Materialized
    /\ h = 1 => \A i \in 2..lineNumber : ValidRow(i, 1) => i \in Materialized
    /\ ParseRan =>
         /\ probe.out.status = "ok"
         /\ ParsedLines = {i \in (h + 1)..Len(file) : ValidRow(i, h)}

----------------------------------------------------------------------------
(* parseStream when reading the file fails.                                *)
(*                                                                         *)
(* fs.createReadStream reports a failed open or read as an 'error' event   *)
(* on fileStream and destroys the stream.  parseStream puts no listener on *)
(* fileStream: its only error listener is on rl.  Whether rl emits the     *)
(* error of its input is up to the readline of the Node.js in use, and the *)
(* README admits every version from 14 on: both outcomes are modelled.     *)

\* the error the read stream reports
IOError == -1

\* the process has not been ended by an uncaught exception
Alive == fileStream # "uncaught"

\* the read fails and rl emits 'error' with it: reject(error)
ReadErrorForwarded ==
  /\ fileStream = "open" /\ ~closed
  /\ fileStream' = "errored"
  /\ promise' = Reject(promise, IOError)
  /\ UNCHANGED <<app, probe, svc, file, finalNewline, batchSize, pos, headers,
                 arrays, batch, lineNumber, totalRecords, paused, closed,
                 calls>>

\* the read fails and nothing listens: the 'error' event of fileStream is
\* thrown as an uncaught exception, which ends the process
ReadErrorUncaught ==
  /\ fileStream = "open" /\ ~closed
  /\ fileStream' = "uncaught"
  /\ UNCHANGED <<app, probe, svc, file, finalNewline, batchSize, pos, headers,
                 arrays, batch, lineNumber, totalRecords, paused, closed,
                 calls, promise>>

NextIO ==
  \/ ReadErrorForwarded
  \/ ReadErrorUncaught
  \/ (Alive /\ Next)

SpecIO == Init /\ [][NextIO]_vars

ReadFailed == fileStream \in {"errored", "uncaught"}

\* C13: when reading the file fails, the promise of parseStream is rejected
\* with that I/O error: it neither stays pending nor resolves with a count.
C13_ReadFailureRejects ==
  ReadFailed => promise = [state |-> "rejected", value |-> IOError]

----------------------------------------------------------------------------
(* Properties of the whole-file loader.                                    *)

NonBlankLines == {i \in 1..Len(file) : NonBlank(i)}

EmptyFileError == probe.out.status = "error" /\ probe.out.error = "CSV file is empty"

\* C14: parse() fails with the empty-file error exactly when the file has no
\* non-blank line; with the header as its only non-blank line it returns
\* zero records; its header is the first non-blank line, and no blank line
\* and no line up to the header gives a record.
C14_EmptyFileAndHeader ==
  ParseRan =>
    /\ EmptyFileError <=> NonBlankLines = {}
    /\ Cardinality(NonBlankLines) = 1 =>
         probe.out.status = "ok" /\ probe.out.records = <<>>
    /\ ~EmptyFileError =>
         /\ probe.out.headers = parseLine(file[FirstNonBlank])
         /\ ParsedLines \subseteq {i \in NonBlankLines : i > FirstNonBlank}

\* blank lines before and after the header, and a row after them
C14_Witness ==
  /\ ParseRan
  /\ file = <<SpaceLine, EmptyFirstLine, SpaceLine, EmptyFirstLine>>
  /\ probe.out.status = "ok"
  /\ probe.out.headers = <<<<>>, <<"1">>>>
  /\ ParsedLines = {4}

----------------------------------------------------------------------------
(* insertUserBatch: one call, a step per await.                            *)
(*                                                                         *)
(* svc.table is what the users table holds, svc.tx the rows inserted in    *)
(* the open transaction.  A statement that fails changes nothing; COMMIT   *)
(* moves the rows of the transaction into the table, ROLLBACK and the loss *)
(* of the connection discard them.  A record is "good", or "bad" when its  *)
(* INSERT is refused (an age kept as the string "abc" for the INT column). *)
(* Every statement can also fail for a reason of its own (the connection). *)

RecordKinds == {"good", "bad"}

Batches == UNION {[1..n -> RecordKinds] : n \in 0..MaxRecords}

\* the row INSERT adds for the i-th record of the batch
Row(i) == [batch |-> "new", n |-> i]

OldRow == [batch |-> "old", n |-> 1]

\* the catch block is entered with error e
Catch(e) == [svc EXCEPT !.pc = "rollback", !.error = e]

\* insertUserBatch(records) is called
Call(records) ==
  /\ svc.pc = "idle"
  /\ svc' = [svc EXCEPT !.pc = "connect", !.records = records,
                        !.before = svc.table]
  /\ UNCHANGED <<app, probe, file, finalNewline, batchSize, pos, headers, arrays,
                 batch, lineNumber, totalRecords, paused, closed, fileStream,
                 calls, promise>>

\* await pool.connect(), outside the try
Connect ==
  /\ svc.pc = "connect"
  /\ \/ svc' = [svc EXCEPT !.pc = "begin"]
     \/ svc' = [svc EXCEPT !.pc = "done", !.error = "connect",
                           !.result = [kind |-> "thrown", value |-> 0,
                                       error |-> "connect"]]
  /\ UNCHANGED <<app, probe, file, finalNewline, batchSize, pos, headers, arrays,
                 batch, lineNumber, totalRecords, paused, closed, fileStream,
                 calls, promise>>

\* await client.query('BEGIN')
Begin ==
  /\ svc.pc = "begin"
  /\ \/ svc' = [svc EXCEPT !.pc = IF svc.records = <<>> THEN "commit" ELSE "insert",
                           !.i = 1]
     \/ svc' = Catch("BEGIN")
  /\ UNCHANGED <<app, probe, file, finalNewline, batchSize, pos, headers, arrays,
                 batch, lineNumber, totalRecords, paused, closed, fileStream,
                 calls, promise>>

\* await client.query('INSERT ...') for the next record of the batch
Insert ==
  /\ svc.pc = "insert"
  /\ \/ /\ svc.records[svc.i] = "good"
        /\ svc' = [svc EXCEPT !.tx = Append(@, Row(svc.i)),
                              !.i = @ + 1,
                              !.pc = IF svc.i = Len(svc.records)
                                       THEN "commit" ELSE "insert"]
     \/ svc' = Catch("INSERT")
  /\ UNCHANGED <<app, probe, file, finalNewline, batchSize, pos, headers, arrays,
                 batch, lineNumber, totalRecords, paused, closed, fileStream,
                 calls, promise>>

\* await client.query('COMMIT'); return records.length; client.release()
Commit ==
  /\ svc.pc = "commit"
  /\ \/ svc' = [svc EXCEPT !.table = @ \o svc.tx, !.tx = <<>>,
                           !.pc = "done", !.released = TRUE,
                           !.result = [kind |-> "returned",
                                       value |-> Len(svc.records),
                                       error |-> ""]]
     \/ svc' = Catch("COMMIT")
  /\ UNCHANGED <<app, probe, file, finalNewline, batchSize, pos, headers, arrays,
                 batch, lineNumber, totalRecords, paused, closed, fileStream,
                 calls, promise>>

\* await client.query('ROLLBACK'); throw error; client.release().  When
\* ROLLBACK fails the await throws inside the catch block: its error leaves
\* the function, not the one that was caught.
Rollback ==
  /\ svc.pc = "rollback"
  /\ \/ svc' = [svc EXCEPT !.tx = <<>>, !.pc = "done", !.released = TRUE,
                           !.result = [kind |-> "thrown", value |-> 0,
                                       error |-> svc.error]]
     \/ svc' = [svc EXCEPT !.tx = <<>>, !.pc = "done", !.released = TRUE,
                           !.result = [kind |-> "thrown", value |-> 0,
                                       error |-> "ROLLBACK"]]
  /\ UNCHANGED <<app, probe, file, finalNewline, batchSize, pos, headers, arrays,
                 batch, lineNumber, totalRecords, paused, closed, fileStream,
                 calls, promise>>

InitInsert ==
  /\ file = <<>>
  /\ finalNewline = TRUE
  /\ batchSize = 1
  /\ pos = 0
  /\ headers = NoHeaders
  /\ arrays = << <<>> >>
  /\ batch = 1
  /\ lineNumber = 0
  /\ totalRecords = 0
  /\ paused = FALSE
  /\ closed = FALSE
  /\ fileStream = "open"
  /\ calls = <<>>
  /\ promise = Pending
  /\ probe = NoProbe
  /\ svc \in {[NoSvc EXCEPT !.table = t] : t \in {<<>>, <<OldRow>>}}
  /\ app = NoApp

NextInsert ==
  \/ \E records \in Batches : Call(records)
  \/ Connect
  \/ Begin
  \/ Insert
  \/ Commit
  \/ Rollback

SpecInsert == InitInsert /\ [][NextInsert]_vars

\* the rows a committed batch adds to the table
RowsOf(records) == [i \in DOMAIN records |-> Row(i)]

\* C15: if insertUserBatch returns, the table has gained one row per record
\* of the batch and the value returned is records.length; if it throws, the
\* table is what it was before the call and the error thrown is the one of
\* the statement that failed.
C15_AllOrNothing ==
  svc.pc = "done" =>
    /\ svc.result.kind = "returned" =>
         /\ svc.table = svc.before \o RowsOf(svc.records)
         /\ svc.result.value = Len(svc.records)
    /\ svc.result.kind = "thrown" =>
         /\ svc.table = svc.before
         /\ svc.tx = <<>>
         /\ svc.result.error = svc.error

----------------------------------------------------------------------------
(* parseLine on its own: every line of up to MaxLineLen characters over a  *)
(* small alphabet, and the example line a,"b,c",d.                         *)

LineAlphabet == {"a", ",", "\"", " "}

ExampleLine == <<"a", ",", "\"", "b", ",", "c", "\"", ",", "d">>

ParseLineInputs ==
  UNION {[1..n -> LineAlphabet] : n \in 0..MaxLineLen} \cup {ExampleLine}

InitParseLine ==
  /\ file = <<>>
  /\ finalNewline = TRUE
  /\ batchSize = 1
  /\ pos = 0
  /\ headers = NoHeaders
  /\ arrays = << <<>> >>
  /\ batch = 1
  /\ lineNumber = 0
  /\ totalRecords = 0
  /\ paused = FALSE
  /\ closed = FALSE
  /\ fileStream = "open"
  /\ calls = <<>>
  /\ promise = Pending
  /\ svc = NoSvc
  /\ app = NoApp
  /\ probe \in {[NoProbe EXCEPT !.arg = line] : line \in ParseLineInputs}

\* parseLine(line) is called on the line chosen
ParseLineCall ==
  /\ probe.op = "none"
  /\ probe' = [probe EXCEPT !.op = "parseLine", !.out = parseLine(probe.arg)]
  /\ UNCHANGED <<app, svc, file, finalNewline, batchSize, pos, headers, arrays,
                 batch, lineNumber, totalRecords, paused, closed, fileStream,
                 calls, promise>>

NextParseLine == ParseLineCall

SpecParseLine == InitParseLine /\ [][NextParseLine]_vars

\* the positions of the double quotes before position i
QuotesBefore(line, i) == {j \in 1..(i - 1) : line[j] = "\""}

\* the flag is true at i when an odd number of quotes precedes i
FlagAt(line, i) == Cardinality(QuotesBefore(line, i)) % 2 = 1

\* the commas seen while the flag is false, and while it is true
FieldCommas(line) == {i \in DOMAIN line : line[i] = "," /\ ~FlagAt(line, i)}
QuotedCommas(line) == {i \in DOMAIN line : line[i] = "," /\ FlagAt(line, i)}

\* the k-th smallest member of a set of positions
Nth(S, k) == CHOOSE i \in S : Cardinality({j \in S : j < i}) = k - 1

\* the characters between the (k-1)-th and the k-th field comma, quotes
\* removed
Segment(line, k) ==
  LET S == FieldCommas(line)
      from == IF k = 1 THEN 1 ELSE Nth(S, k - 1) + 1
      to == IF k = Cardinality(S) + 1 THEN Len(line) ELSE Nth(S, k) - 1
  IN SelectSeq(SubSeq(line, from, to), LAMBDA c : c # "\"")

\* the number of commas in the fields of a result
RECURSIVE CommasIn(_)
CommasIn(fields) ==
  IF fields = <<>> THEN 0
  ELSE Len(SelectSeq(Head(fields), LAMBDA c : c = ",")) + CommasIn(Tail(fields))

\* C16: parseLine returns 1 + (number of commas seen with the flag false)
\* fields; commas seen with the flag true stay inside their field; no field
\* holds a double quote; every field is trimmed; the last field is pushed
\* even if empty; each field is the trimmed text between two field commas.
C16_ParseLineFields ==
  probe.op = "parseLine" =>
    LET line == probe.arg
        out == probe.out
    IN /\ Len(out) = 1 + Cardinality(FieldCommas(line))
       /\ CommasIn(out) = Cardinality(QuotedCommas(line))
       /\ \A k \in DOMAIN out :
            /\ "\"" \notin Range(out[k])
            /\ Trim(out[k]) = out[k]
            /\ out[k] = Trim(Segment(line, k))
       /\ (line = <<>> \/ Len(line) \in FieldCommas(line))
            => out[Len(out)] = <<>>
       /\ line = ExampleLine => out = << <<"a">>, <<"b", ",", "c">>, <<"d">> >>

C16_Witness ==
  /\ probe.op = "parseLine"
  /\ probe.arg = ExampleLine
  /\ probe.out = << <<"a">>, <<"b", ",", "c">>, <<"d">> >>

----------------------------------------------------------------------------
(* The materialization of one row on its own: every header list of up to   *)
(* MaxCols dotted paths, with every list of field values, and the example  *)
(* of the README.                                                          *)

HeaderSet == {<<"a">>, <<"b">>, <<"a", ".", "b">>, <<"a", ".", "c">>,
              <<"a", ".", "b", ".", "c">>}

\* empty, zero, a non-numeric and a non-zero numeric value
FieldSet == {<<>>, <<"0">>, <<"x">>, <<"7">>}

ExampleHeaders == <<<<"n", "a", "m", "e", ".", "f", "i", "r", "s", "t", "N", "a", "m", "e">>, <<"n", "a", "m", "e", ".", "l", "a", "s", "t", "N", "a", "m", "e">>, <<"a", "g", "e">>>>
ExampleValues == <<<<"R", "o", "h", "i", "t">>, <<"P", "r", "a", "s", "a", "d">>, <<"3", "5">>>>

RowInputs ==
  UNION {[headers : [1..n -> HeaderSet], values : [1..n -> FieldSet]] :
           n \in 0..MaxCols}
    \cup {[headers |-> ExampleHeaders, values |-> ExampleValues]}

InitRow ==
  /\ file = <<>>
  /\ finalNewline = TRUE
  /\ batchSize = 1
  /\ pos = 0
  /\ headers = NoHeaders
  /\ arrays = << <<>> >>
  /\ batch = 1
  /\ lineNumber = 0
  /\ totalRecords = 0
  /\ paused = FALSE
  /\ closed = FALSE
  /\ fileStream = "open"
  /\ calls = <<>>
  /\ promise = Pending
  /\ svc = NoSvc
  /\ app = NoApp
  /\ probe \in {[NoProbe EXCEPT !.arg = input] : input \in RowInputs}

\* the loop over the columns runs on the headers and the values chosen
MapColumnsCall ==
  /\ probe.op = "none"
  /\ probe' = [probe EXCEPT
                 !.op = "record",
                 !.out = MapColumns(probe.arg.headers, probe.arg.values, 1,
                                    Obj(<<>>))]
  /\ UNCHANGED <<app, svc, file, finalNewline, batchSize, pos, headers, arrays,
                 batch, lineNumber, totalRecords, paused, closed, fileStream,
                 calls, promise>>

NextRow == MapColumnsCall

SpecRow == InitRow /\ [][NextRow]_vars

\* the dotted path of a header: its trimmed segments
PathOf(header) ==
  LET keys == Split(Trim(header), ".") IN [i \in DOMAIN keys |-> Trim(keys[i])]

IsPrefix(p, q) == Len(p) <= Len(q) /\ SubSeq(q, 1, Len(p)) = p

\* one path leads through the leaf of the other
Comparable(p, q) == IsPrefix(p, q) \/ IsPrefix(q, p)

Missing == [t |-> "missing", v |-> <<>>]

\* the value found in obj along a path
RECURSIVE Lookup(_, _)
Lookup(obj, path) ==
  IF path = <<>> THEN obj
  ELSE IF obj.t # "obj" \/ Head(path) \notin DOMAIN obj.v THEN Missing
  ELSE Lookup(obj.v[Head(path)], Tail(path))

RowDone == probe.op = "record"

\* C17: the leaf of a column is still in the record, with its value, unless
\* a later column's path leads through it or ends on its way: columns whose
\* paths part after a shared prefix are keys of the same container.  When
\* no two paths of the header list are comparable the record has the leaf of
\* every column.
C17_SiblingsKept ==
  RowDone =>
    LET hdrs == probe.arg.headers
        values == probe.arg.values
        path == [j \in DOMAIN hdrs |-> PathOf(hdrs[j])]
        Last(j) == \A k \in DOMAIN hdrs : k > j => ~Comparable(path[k], path[j])
    IN /\ probe.out # Thrown =>
            \A j \in DOMAIN hdrs :
               Last(j) => Lookup(probe.out, path[j]) = Coerce(Trim(values[j]))
       /\ (\A j, k \in DOMAIN hdrs : j # k => ~Comparable(path[j], path[k]))
            => probe.out # Thrown
       /\ (hdrs = ExampleHeaders /\ values = ExampleValues) =>
            probe.out = Obj(<<"n", "a", "m", "e">> :>
                                Obj(<<"f", "i", "r", "s", "t", "N", "a", "m", "e">> :> Str(<<"R", "o", "h", "i", "t">>) @@ <<"l", "a", "s", "t", "N", "a", "m", "e">> :> Str(<<"P", "r", "a", "s", "a", "d">>))
                              @@ <<"a", "g", "e">> :> Num(35, 1))

C17_Witness ==
  /\ RowDone
  /\ probe.arg.headers = ExampleHeaders
  /\ probe.arg.values = ExampleValues
  /\ Lookup(probe.out, <<<<"n", "a", "m", "e">>, <<"f", "i", "r", "s", "t", "N", "a", "m", "e">>>>) = Str(<<"R", "o", "h", "i", "t">>)
  /\ Lookup(probe.out, <<<<"n", "a", "m", "e">>, <<"l", "a", "s", "t", "N", "a", "m", "e">>>>) = Str(<<"P", "r", "a", "s", "a", "d">>)

----------------------------------------------------------------------------
(* The numeric conversion on its own: every trimmed value of up to         *)
(* MaxFieldLen characters over a small alphabet, and the values of the     *)
(* examples.                                                               *)

FieldAlphabet == {"0", "1", ".", "-", "e", "x", "A"}

ExampleFields == {<<"3", "5">>, <<"A", "-", "5", "6", "3">>, <<"I", "n", "f", "i", "n", "i", "t", "y">>, <<"-", "I", "n", "f", "i", "n", "i", "t", "y">>}

CoerceInputs ==
  UNION {[1..n -> FieldAlphabet] : n \in 0..MaxFieldLen} \cup ExampleFields

InitCoerce ==
  /\ file = <<>>
  /\ finalNewline = TRUE
  /\ batchSize = 1
  /\ pos = 0
  /\ headers = NoHeaders
  /\ arrays = << <<>> >>
  /\ batch = 1
  /\ lineNumber = 0
  /\ totalRecords = 0
  /\ paused = FALSE
  /\ closed = FALSE
  /\ fileStream = "open"
  /\ calls = <<>>
  /\ promise = Pending
  /\ svc = NoSvc
  /\ app = NoApp
  /\ probe \in {[NoProbe EXCEPT !.arg = value] : value \in CoerceInputs}

\* the conversion runs on the value chosen
CoerceCall ==
  /\ probe.op = "none"
  /\ probe' = [probe EXCEPT !.op = "coerce", !.out = Coerce(probe.arg)]
  /\ UNCHANGED <<app, svc, file, finalNewline, batchSize, pos, headers, arrays,
                 batch, lineNumber, totalRecords, paused, closed, fileStream,
                 calls, promise>>

NextCoerce == CoerceCall

SpecCoerce == InitCoerce /\ [][NextCoerce]_vars

CoerceDone == probe.op = "coerce"

Unsigned(s) == IF s # <<>> /\ s[1] \in {"+", "-"} THEN Tail(s) ELSE s

DigitsOnly(s) == \A i \in DOMAIN s : s[i] \in Range(DecDigits)

\* optional sign, digits, optional decimal point and fractional digits
SimpleNumeric(s) ==
  LET u == Unsigned(s) IN
  \E d \in 1..Len(u) :
     /\ DigitsOnly(SubSeq(u, 1, d))
     /\ \/ d = Len(u)
        \/ /\ d + 1 < Len(u)
           /\ u[d + 1] = "."
           /\ DigitsOnly(SubSeq(u, d + 2, Len(u)))

\* digits with at most one point, before, between or after them
PointedDigits(m) ==
  \E d \in 0..Len(m) :
     /\ DigitsOnly(SubSeq(m, 1, d))
     /\ \/ d = Len(m) /\ d > 0
        \/ /\ d < Len(m)
           /\ m[d + 1] = "."
           /\ DigitsOnly(SubSeq(m, d + 2, Len(m)))
           /\ Len(m) > 1

\* e or E, an optional sign and digits
Exponent(x) ==
  /\ Len(x) >= 2
  /\ x[1] \in {"e", "E"}
  /\ Unsigned(Tail(x)) # <<>>
  /\ DigitsOnly(Unsigned(Tail(x)))

\* 0x, 0o or 0b and digits of that base, with no sign
PrefixedInteger(s) ==
  /\ Len(s) >= 3
  /\ s[1] = "0"
  /\ \/ s[2] \in {"x", "X"} /\ \A i \in 3..Len(s) : s[i] \in Range(HexDigits) \cup DOMAIN UpperHex
     \/ s[2] \in {"o", "O"} /\ \A i \in 3..Len(s) : s[i] \in Range(SubSeq(DecDigits, 1, 8))
     \/ s[2] \in {"b", "B"} /\ \A i \in 3..Len(s) : s[i] \in {"0", "1"}

\* what Number() reads as a number: an optional sign and either Infinity or
\* digits with at most one point and an optional exponent; or a prefixed
\* integer
NumericString(s) ==
  \/ Unsigned(s) = <<"I", "n", "f", "i", "n", "i", "t", "y">>
  \/ \E m \in 0..Len(Unsigned(s)) :
        /\ PointedDigits(SubSeq(Unsigned(s), 1, m))
        /\ m = Len(Unsigned(s)) \/ Exponent(SubSeq(Unsigned(s), m + 1, Len(Unsigned(s))))
  \/ PrefixedInteger(s)

IsNumber(x) == x.t = "num"

\* C18, as claimed: a trimmed value is converted to a number exactly when it
\* is non-empty and is an optional sign, digits and an optional decimal
\* point with fractional digits; every other value stays the string it was.
C18_SimpleGrammarOnly ==
  CoerceDone =>
    /\ IsNumber(probe.out) <=> (probe.arg # <<>> /\ SimpleNumeric(probe.arg))
    /\ ~IsNumber(probe.out) => probe.out = Str(probe.arg)

\* C18, amended: a trimmed value is converted to a number exactly when it is
\* non-empty and Number() reads it as a number (the grammar above, wider
\* than the one claimed); every other value stays the string it was; "35"
\* becomes 35, "" stays "", "A-563" stays "A-563".
C18_NumericStringsConverted ==
  CoerceDone =>
    /\ IsNumber(probe.out) <=> (probe.arg # <<>> /\ NumericString(probe.arg))
    /\ ~IsNumber(probe.out) => probe.out = Str(probe.arg)
    /\ SimpleNumeric(probe.arg) => IsNumber(probe.out)
    /\ probe.arg = <<"3", "5">> => probe.out = Num(35, 1)
    /\ probe.arg = <<>> => probe.out = Str(<<>>)
    /\ probe.arg = <<"A", "-", "5", "6", "3">> => probe.out = Str(<<"A", "-", "5", "6", "3">>)

\* a value outside the grammar claimed that is converted
C18_Witness ==
  /\ CoerceDone
  /\ probe.arg = <<"1", "e", "1">>
  /\ ~SimpleNumeric(probe.arg)
  /\ probe.out = Num(10, 1)

----------------------------------------------------------------------------
(* The key skeleton of a record.                                           *)

\* the paths of the leaves of a value: the skeleton of a record
RECURSIVE LeafPaths(_)
LeafPaths(x) ==
  IF x.t # "obj" THEN {<<>>}
  ELSE UNION {{<<key>> \o p : p \in LeafPaths(x.v[key])} : key \in DOMAIN x.v}

HeaderPaths(hdrs) == {PathOf(hdrs[j]) : j \in DOMAIN hdrs}

\* the paths of the headers that no later header replaces: a later path
\* replaces an earlier one when one of the two is a prefix of the other
LastPaths(hdrs) ==
  {PathOf(hdrs[j]) : j \in {i \in DOMAIN hdrs :
      \A k \in DOMAIN hdrs :
         k > i => ~Comparable(PathOf(hdrs[k]), PathOf(hdrs[i]))}}

PrefixFree(hdrs) ==
  \A j, k \in DOMAIN hdrs :
     Comparable(PathOf(hdrs[j]), PathOf(hdrs[k])) => hdrs[j] = hdrs[k]

RecordMade == RowDone /\ probe.out # Thrown

\* C19, as claimed: the skeleton of every record made from a header list is
\* the set of the headers' dotted paths, whatever the values.
C19_SkeletonIsHeaderPaths ==
  RecordMade => LeafPaths(probe.out) = HeaderPaths(probe.arg.headers)

\* C19, amended: the skeleton of every record made from a header list is
\* fixed by the header list alone, whatever the values: it is the set of the
\* header paths that no later header replaces, which is the set of all the
\* headers' paths when no header path is a proper prefix of another.
C19_SkeletonFixedByHeaders ==
  RecordMade =>
    /\ LeafPaths(probe.out) = LastPaths(probe.arg.headers)
    /\ PrefixFree(probe.arg.headers) =>
         LeafPaths(probe.out) = HeaderPaths(probe.arg.headers)

\* a record made from headers a,a.b: the empty value at a is replaced
C19_Witness ==
  /\ RecordMade
  /\ probe.arg.headers = <<<<"a">>, <<"a", ".", "b">>>>
  /\ probe.arg.values = <<<<>>, <<"x">>>>
  /\ LeafPaths(probe.out) = {<<<<"a">>, <<"b">>>>}

----------------------------------------------------------------------------
(* Last write wins.                                                        *)

\* the merge as claimed: recurse where target and source both hold a
\* container at the key, assign the source value everywhere else
RECURSIVE MergeOverwriting(_, _)
MergeOverwriting(target, source) ==
  Obj([key \in (DOMAIN target.v) \cup (DOMAIN source.v) |->
         IF key \notin DOMAIN source.v THEN target.v[key]
         ELSE IF /\ key \in DOMAIN target.v
                 /\ target.v[key].t = "obj"
                 /\ source.v[key].t = "obj"
           THEN MergeOverwriting(target.v[key], source.v[key])
         ELSE source.v[key]])

\* the columns merged in header order with the merge as claimed
RECURSIVE OverwritingRecord(_, _, _)
OverwritingRecord(hdrs, values, n) ==
  IF n = 0 THEN Obj(<<>>)
  ELSE MergeOverwriting(OverwritingRecord(hdrs, values, n - 1),
                        NestKeys(PathOf(hdrs[n]), Coerce(Trim(values[n]))))

\* C20: the record of a row is the one the columns give when merged in
\* header order with last write wins: a later value replaces the earlier
\* one of a duplicate header, and a later header a.b replaces a scalar
\* stored at a.
C20_LastWriteWins ==
  RowDone =>
    probe.out = OverwritingRecord(probe.arg.headers, probe.arg.values,
                                  Len(probe.arg.headers))

----------------------------------------------------------------------------
(* parseStream to its end: the stream keeps delivering while it flows, and *)
(* every onBatch call settles.                                             *)

\* the onBatch call c settles, one way or the other
Settle(c) == BatchDone(c) \/ BatchFailed(c) \/ FinalDone(c) \/ FinalFailed(c)

\* the guards of Data and of End: what ENABLED is for them
DataReady == ~paused /\ ~closed /\ fileStream = "open" /\ pos < Deliverable
EndReady == ~paused /\ ~closed /\ fileStream = "open" /\ pos = Deliverable

\* Weak fairness of the three kinds of step.  A read stream that flows
\* delivers its next chunk, and after the last its end; an onBatch call that
\* is pending settles.  For Data and End weak fairness is written out, with
\* the guard in the place of ENABLED.
Fairness ==
  /\ []<>~DataReady \/ []<><<\E k \in 1..MaxLines : Data(k)>>_vars
  /\ []<>~EndReady \/ []<><<End>>_vars
  /\ WF_vars(\E c \in DOMAIN calls : Settle(c))

SpecLive == Init /\ [][Next]_vars /\ Fairness

\* C21: every run is eventually settled, resolved with the total or
\* rejected; once settled the promise never changes, so the other outcome
\* is never reported.
C21_EventuallyOneOutcome ==
  /\ <>Settled
  /\ [][Settled => promise' = promise]_vars
  /\ [](promise.state = "fulfilled" => promise.value = totalRecords)

\* a run rejected after a failed call, with every call settled: the close
\* handler's later resolve has changed nothing
C21_Witness ==
  /\ promise.state = "rejected"
  /\ closed
  /\ Len(calls) >= 2
  /\ InFlight = {}

----------------------------------------------------------------------------
(* parseStream against parse() on one file.                                *)

\* the objects of a list of records, in order
ValuesOf(records) == [i \in DOMAIN records |-> records[i].value]

\* the records handed to onBatch over the first n calls: what a consumer
\* that reads its argument when it is called has seen, concatenated
RECURSIVE DeliveredRecords(_)
DeliveredRecords(n) ==
  IF n = 0 THEN <<>>
  ELSE DeliveredRecords(n - 1) \o ValuesOf(calls[n].atStart)

\* parseStream has resolved and every onBatch call has succeeded
StreamSucceeded ==
  /\ promise.state = "fulfilled"
  /\ \A c \in DOMAIN calls : calls[c].status = "fulfilled"

\* C22: with a consumer that always succeeds, the batches parseStream
\* delivers, concatenated, are the records parse() returns for the file, in
\* the same order, and the total parseStream resolves with is the length of
\* the result of parse().
C22_StreamEqualsLoad ==
  (ParseRan /\ StreamSucceeded) =>
    /\ probe.out.status = "ok"
    /\ DeliveredRecords(Len(calls)) = ValuesOf(probe.out.records)
    /\ promise.value = Len(probe.out.records)

----------------------------------------------------------------------------
(* processCsvFile: the runs of the application on the one users table.     *)
(*                                                                         *)
(* startApplication awaits the run made at startup before it listens; the  *)
(* POST /api/process handler starts a run and answers without awaiting it, *)
(* so runs started by requests overlap.  A run clears the table, then      *)
(* inserts the batches of the file one after the other.  TRUNCATE is one   *)
(* statement and insertUserBatch is one transaction whose rows appear at   *)
(* COMMIT: each is one step here, on svc.table.  Every run reads the file  *)
(* a line at a time, so that each of its batches is awaited before the     *)
(* next row is read.                                                       *)

MaxRuns == 2

\* processCsvFile() has just been called
NewRun == [pc |-> "clear", next |-> 1]

\* the files the runs load: the header and valid rows
ProcessFiles == {<<HeaderLine>> \o [i \in 1..n |-> RowLine] : n \in 0..MaxRecords}

\* the records of the file, each named by its line
Records == [i \in 1..(Len(file) - 1) |-> i + 1]

\* the number of onBatch calls of a run: the full batches and the flush
NumBatches == (Len(Records) + batchSize - 1) \div batchSize

\* the k-th batch a run passes to insertUserBatch
BatchOf(k) ==
  SubSeq(Records, (k - 1) * batchSize + 1,
         IF k * batchSize < Len(Records) THEN k * batchSize ELSE Len(Records))

InitProcess ==
  /\ file \in ProcessFiles
  /\ finalNewline = TRUE
  /\ batchSize \in 1..MaxBatchSize
  /\ pos = 0
  /\ headers = NoHeaders
  /\ arrays = << <<>> >>
  /\ batch = 1
  /\ lineNumber = 0
  /\ totalRecords = 0
  /\ paused = FALSE
  /\ closed = FALSE
  /\ fileStream = "open"
  /\ calls = <<>>
  /\ promise = Pending
  /\ probe = NoProbe
  /\ svc \in {[NoSvc EXCEPT !.table = t] : t \in {<<>>, <<OldRow>>}}
  /\ app = NoApp

\* startApplication after initializeDatabase: the file is there and the
\* startup run is made and awaited, or it is not and the server listens
StartApplication ==
  /\ app.phase = "starting"
  /\ \E exists \in BOOLEAN :
       app' = IF exists THEN [phase |-> "loading", runs |-> <<NewRun>>]
                        ELSE [app EXCEPT !.phase = "listening"]
  /\ UNCHANGED <<svc, probe, file, finalNewline, batchSize, pos, headers,
                 arrays, batch, lineNumber, totalRecords, paused, closed,
                 fileStream, calls, promise>>

\* the startup run has returned: app.listen
Listen ==
  /\ app.phase = "loading"
  /\ app.runs[1].pc = "done"
  /\ app' = [app EXCEPT !.phase = "listening"]
  /\ UNCHANGED <<svc, probe, file, finalNewline, batchSize, pos, headers,
                 arrays, batch, lineNumber, totalRecords, paused, closed,
                 fileStream, calls, promise>>

\* the startup run has thrown: process.exit(1)
Exit ==
  /\ app.phase = "loading"
  /\ app.runs[1].pc = "failed"
  /\ app' = [app EXCEPT !.phase = "exited"]
  /\ UNCHANGED <<svc, probe, file, finalNewline, batchSize, pos, headers,
                 arrays, batch, lineNumber, totalRecords, paused, closed,
                 fileStream, calls, promise>>

\* POST /api/process: a run is started and not awaited
Post ==
  /\ app.phase = "listening"
  /\ Len(app.runs) < MaxRuns
  /\ app' = [app EXCEPT !.runs = Append(@, NewRun)]
  /\ UNCHANGED <<svc, probe, file, finalNewline, batchSize, pos, headers,
                 arrays, batch, lineNumber, totalRecords, paused, closed,
                 fileStream, calls, promise>>

\* await clearUsersTable() of run r: TRUNCATE
ClearUsersTable(r) ==
  /\ app.runs[r].pc = "clear"
  /\ svc' = [svc EXCEPT !.table = <<>>]
  /\ app' = [app EXCEPT !.runs[r].pc = "parse"]
  /\ UNCHANGED <<probe, file, finalNewline, batchSize, pos, headers,
                 arrays, batch, lineNumber, totalRecords, paused, closed,
                 fileStream, calls, promise>>

\* the onBatch callback of run r: insertUserBatch(batch) commits
InsertBatch(r) ==
  /\ app.runs[r].pc = "parse"
  /\ app.runs[r].next <= NumBatches
  /\ svc' = [svc EXCEPT !.table = @ \o BatchOf(app.runs[r].next)]
  /\ app' = [app EXCEPT !.runs[r].next = @ + 1]
  /\ UNCHANGED <<probe, file, finalNewline, batchSize, pos, headers,
                 arrays, batch, lineNumber, totalRecords, paused, closed,
                 fileStream, calls, promise>>

\* parseStream of run r has resolved: the run returns
RunDone(r) ==
  /\ app.runs[r].pc = "parse"
  /\ app.runs[r].next > NumBatches
  /\ app' = [app EXCEPT !.runs[r].pc = "done"]
  /\ UNCHANGED <<svc, probe, file, finalNewline, batchSize, pos, headers,
                 arrays, batch, lineNumber, totalRecords, paused, closed,
                 fileStream, calls, promise>>

\* a statement of run r fails (TRUNCATE, or one of a batch, which is
\* rolled back): the table is as it was and the run throws
RunFailed(r) ==
  /\ app.runs[r].pc \in {"clear", "parse"}
  /\ app.phase # "exited"
  /\ app' = [app EXCEPT !.runs[r].pc = "failed"]
  /\ UNCHANGED <<svc, probe, file, finalNewline, batchSize, pos, headers,
                 arrays, batch, lineNumber, totalRecords, paused, closed,
                 fileStream, calls, promise>>

NextProcess ==
  \/ StartApplication
  \/ Listen
  \/ Exit
  \/ Post
  \/ \E r \in DOMAIN app.runs : ClearUsersTable(r)
  \/ \E r \in DOMAIN app.runs : InsertBatch(r)
  \/ \E r \in DOMAIN app.runs : RunDone(r)
  \/ \E r \in DOMAIN app.runs : RunFailed(r)

SpecProcess == InitProcess /\ [][NextProcess]_vars

\* every run that was started has returned
AllRunsDone ==
  /\ app.runs # <<>>
  /\ \A r \in DOMAIN app.runs : app.runs[r].pc = "done"

\* the number of rows of the users table made from the record of line l
RowCount(l) == Cardinality({i \in DOMAIN svc.table : svc.table[i] = l})

\* C23: once every run that was started has completed, the users table
\* holds exactly one row per record of the file, whatever the number of
\* runs and the way they overlapped.
C23_OneRowPerRecord ==
  AllRunsDone =>
    /\ Len(svc.table) = Len(Records)
    /\ \A i \in DOMAIN Records : RowCount(Records[i]) = 1

----------------------------------------------------------------------------
(* processCsvFile as the consumer of parseStream.                          *)

\* totalInserted of processCsvFile after the first n onBatch calls: each
\* call that has returned has added records.length, the length its array
\* has when insertUserBatch returns.  The array of a call that has returned
\* is no longer the in-progress batch, so it still has that length.
RECURSIVE InsertedBy(_)
InsertedBy(n) ==
  IF n = 0 THEN 0
  ELSE InsertedBy(n - 1) + (IF calls[n].status = "fulfilled"
                              THEN Len(arrays[calls[n].arr])
                              ELSE 0)

totalInserted == InsertedBy(Len(calls))

\* C24: when the run has completed, with every insertUserBatch call
\* returned, totalInserted is the total parseStream resolved with.
C24_InsertedEqualsTotal ==
  StreamSucceeded => totalInserted = promise.value

============================================================================
